---- MODULE Spec2Model ----
(***************************************************************************)
(* Daily Focus OS: the Recoil atoms of the day (currentDayState), the      *)
(* focus session (focusModeState), the modal flags (uiState) and the user  *)
(* settings, the handlers of the DailyFocusOS component that write them,   *)
(* and the derived focus score.                                            *)
(*                                                                         *)
(* The handlers are closures created when the component renders.  Writes   *)
(* made with an updater function (setX(prev => ...)) apply to the current  *)
(* value of the atom; values a handler reads from its closure              *)
(* (tasksCount.total, settings.isPro, focusMode.timer) and everything the  *)
(* view offers (which buttons exist, which are disabled) are those of the  *)
(* last render.  The model therefore keeps the atoms and the last rendered *)
(* snapshot apart, and Render is the step that brings the view up to date  *)
(* and runs the component's effects.                                       *)
(*                                                                         *)
(* Two variants of the component exist in the repository: the one that     *)
(* seeds three demo commitments from an effect (App.tsx) and the one that  *)
(* does not (the `tasks' variant).  `seeded' says which one is running.    *)
(*                                                                         *)
(* Spec starts at the construction of the atoms.  SpecTimer starts inside a *)
(* session whose countdown has come down to its last seconds, a state Spec *)
(* reaches only after some 1500 callbacks.                                 *)
(*                                                                         *)
(* Not modelled: theme, isFirstTime, isDragging, currentPlaceholder,       *)
(* mobileActiveTab, showFeedbackModal, date and createdAt.  None of them   *)
(* is read by a handler or by the score.                                   *)
(***************************************************************************)
EXTENDS Integers, Sequences, FiniteSets, TLC

VARIABLES
    seeded,      \* TRUE: the variant with the initializeDay effect
    dayData,     \* atom currentDayState
    settings,    \* atom userSettingsState
    focusMode,   \* atom focusModeState
    ui,          \* atom uiState
    now,         \* the clock Date.now() / new Date() reads
    rendered,    \* what the last render of DailyFocusOS saw
    editing,     \* ids of the mounted cards whose isEditing is true
    armed,       \* the countdown interval of the timer effect is set
    budget,      \* events the run may still handle
    lastOp       \* name of the last step taken (observer)

vars == <<seeded, dayData, settings, focusMode, ui, now, rendered, editing,
          armed, budget, lastOp>>

----------------------------------------------------------------------------
(* Bounds of the model *)

\* Events (clicks, submits, countdown callbacks) handled in one run.
MaxEvents == 4
\* The clock advances at most this many times.
MaxClock == 1
\* First clock reading; Date.now() is far above the demo ids 1, 2, 3.
StartClock == 10
\* Most seconds left on the countdown when a run starts inside a session.
MaxRemaining == 2

(* Program constants *)

SessionMinutes == 25
SecondsPerMinute == 60
SessionSeconds == SessionMinutes * SecondsPerMinute
FreeSlots == 3
ProSlots == 4
ScoreAllDone == 40
ScoreTerm == 20
ScoreCap == 100

----------------------------------------------------------------------------
(* Text: a string is a sequence of one-character strings *)

Empty == <<>>
Space == " "

RECURSIVE TrimStart(_)
TrimStart(s) ==
    IF s # <<>> /\ Head(s) = Space THEN TrimStart(Tail(s)) ELSE s

RECURSIVE TrimEnd(_)
TrimEnd(s) ==
    IF s # <<>> /\ s[Len(s)] = Space THEN TrimEnd(SubSeq(s, 1, Len(s) - 1)) ELSE s

\* Mutant of Trim: the text is taken as typed.
TrimMut(s) == s

\* String.prototype.trim
Trim(s) == TrimEnd(TrimStart(s))

\* What the user may have typed into a card's input when it is saved.
Drafts == { <<" ">>, <<" ", "a">> }
\* What the user may have typed into a modal's textarea when it is submitted.
Answers == { <<>>, <<" ">>, <<"r", " ">> }

\* timeSlot is optional: absent on every task handleAddTask creates.
NoSlot == <<>>
\* currentTaskId: null
NoTask == 0
\* A task carries no lastUpdated until handleUpdateTask writes one.
NoStamp == 0

----------------------------------------------------------------------------
(* Tasks *)

NewTask(clock) ==
    [id |-> clock, text |-> Empty, completed |-> FALSE, timeSlot |-> NoSlot,
     locked |-> FALSE, lastUpdated |-> NoStamp]

DemoTasks ==
    << [id |-> 1, text |-> <<"p">>, completed |-> FALSE, timeSlot |-> <<9, 11>>,
        locked |-> FALSE, lastUpdated |-> NoStamp],
       [id |-> 2, text |-> <<"w">>, completed |-> FALSE, timeSlot |-> <<13, 15>>,
        locked |-> FALSE, lastUpdated |-> NoStamp],
       [id |-> 3, text |-> <<"c">>, completed |-> FALSE, timeSlot |-> <<16, 17>>,
        locked |-> FALSE, lastUpdated |-> NoStamp] >>

Ids(tasks) == { tasks[i].id : i \in 1..Len(tasks) }

FreshDay(clock) ==
    [tasks |-> <<>>, focusScore |-> 0, reflection |-> Empty,
     morningQuestion |-> Empty, completed |-> FALSE, focusTime |-> 0,
     lastUpdated |-> clock]

IdleFocus == [isActive |-> FALSE, currentTaskId |-> NoTask, timer |-> 0]

DefaultUi ==
    [showMorningModal |-> TRUE, showReflectionModal |-> FALSE,
     showUpgradeModal |-> FALSE]

DefaultSettings == [isPro |-> FALSE]

Unmounted ==
    [mounted |-> FALSE, tasks |-> <<>>, focus |-> IdleFocus, ui |-> DefaultUi]

Snapshot ==
    [mounted |-> TRUE, tasks |-> dayData.tasks, focus |-> focusMode, ui |-> ui]

----------------------------------------------------------------------------
(* Selectors *)

RECURSIVE CountIf(_, _)
\* tasks.filter(c => c.completed).length and tasks.filter(c => c.locked).length
CountIf(tasks, field) ==
    IF tasks = <<>> THEN 0
    ELSE (IF Head(tasks)[field] THEN 1 ELSE 0) + CountIf(Tail(tasks), field)

tasksCountSelector(day) ==
    [total |-> Len(day.tasks),
     completed |-> CountIf(day.tasks, "completed"),
     locked |-> CountIf(day.tasks, "locked")]

Min(a, b) == IF a < b THEN a ELSE b

\* const hasEditsAfterLock = false
hasEditsAfterLock == FALSE

\* Mutant of focusScoreSelector: an empty list counts as all completed.
focusScoreSelectorMut(day) ==
    LET tasks == tasksCountSelector(day)
        s1 == IF tasks.completed = tasks.total THEN ScoreAllDone ELSE 0
        s2 == s1 + (IF day.focusTime > 0 THEN ScoreTerm ELSE 0)
        s3 == s2 + (IF Len(Trim(day.reflection)) > 0 THEN ScoreTerm ELSE 0)
        hasLockedTasks == \E i \in 1..Len(day.tasks) : day.tasks[i].locked
        s4 == s3 + (IF hasLockedTasks /\ ~hasEditsAfterLock THEN ScoreTerm ELSE 0)
    IN  Min(s4, ScoreCap)

focusScoreSelector(day) ==
    LET tasks == tasksCountSelector(day)
        s1 == IF tasks.completed = tasks.total /\ tasks.total > 0
              THEN ScoreAllDone ELSE 0
        s2 == s1 + (IF day.focusTime > 0 THEN ScoreTerm ELSE 0)
        s3 == s2 + (IF Len(Trim(day.reflection)) > 0 THEN ScoreTerm ELSE 0)
        hasLockedTasks == \E i \in 1..Len(day.tasks) : day.tasks[i].locked
        s4 == s3 + (IF hasLockedTasks /\ ~hasEditsAfterLock THEN ScoreTerm ELSE 0)
    IN  Min(s4, ScoreCap)

----------------------------------------------------------------------------
(* The updater functions the handlers pass to setDayData / setFocusMode *)

MapTasks(tasks, F(_)) ==
    IF tasks = <<>> THEN <<>> ELSE [i \in 1..Len(tasks) |-> F(tasks[i])]

FilterTasks(tasks, Keep(_)) == SelectSeq(tasks, Keep)

\* Mutant of AppendTask: the new task is put first.
AppendTaskMut(tasks, task) == <<task>> \o tasks

\* tasks: [...prev.tasks, newTask]
AppendTask(tasks, task) == Append(tasks, task)

\* c.id === id ? { ...c, text, lastUpdated: new Date() } : c
UpdateText(tasks, id, text, clock) ==
    LET F(c) == IF c.id = id
                THEN [c EXCEPT !.text = text, !.lastUpdated = clock] ELSE c
    IN  MapTasks(tasks, F)

\* prev.tasks.filter(c => c.id !== id)
RemoveTask(tasks, id) ==
    LET Keep(c) == c.id # id
    IN  FilterTasks(tasks, Keep)

\* Mutant of FlipCompleted: the flag is set, not flipped.
FlipCompletedMut(tasks, id) ==
    LET F(c) == IF c.id = id THEN [c EXCEPT !.completed = TRUE] ELSE c
    IN  MapTasks(tasks, F)

\* c.id === id ? { ...c, completed: !c.completed } : c
FlipCompleted(tasks, id) ==
    LET F(c) == IF c.id = id THEN [c EXCEPT !.completed = ~c.completed] ELSE c
    IN  MapTasks(tasks, F)

\* Mutant of LockAll: only the first task is locked.
LockAllMut(tasks) ==
    IF tasks = <<>> THEN <<>>
    ELSE <<[Head(tasks) EXCEPT !.locked = TRUE]>> \o Tail(tasks)

\* prev.tasks.map(c => ({ ...c, locked: true }))
LockAll(tasks) ==
    LET F(c) == [c EXCEPT !.locked = TRUE]
    IN  MapTasks(tasks, F)

\* Mutant of focusTimeMinutes: the minute in progress is not counted.
focusTimeMinutesMut(timer) == SessionMinutes - 1 - (timer \div SecondsPerMinute)

\* 25 - Math.floor(focusMode.timer / 60)
focusTimeMinutes(timer) == SessionMinutes - (timer \div SecondsPerMinute)

----------------------------------------------------------------------------
(* The handlers of DailyFocusOS, as functions of the atoms they write.     *)
(* `total', `isPro' and `timer' are the values the closure captured.       *)

\* The two early returns of handleAddTask.
AddOutcome(total, isPro) ==
    IF total >= FreeSlots /\ ~isPro THEN "upgrade"
    ELSE IF total >= ProSlots THEN "full"
    ELSE "add"

handleAddTask(day, clock) ==
    [day EXCEPT !.tasks = AppendTask(@, NewTask(clock)), !.lastUpdated = clock]

handleUpdateTask(day, id, text, clock) ==
    [day EXCEPT !.tasks = UpdateText(@, id, text, clock), !.lastUpdated = clock]

handleDeleteTask(day, id, clock) ==
    [day EXCEPT !.tasks = RemoveTask(@, id), !.lastUpdated = clock]

handleToggleComplete(day, id, clock) ==
    [day EXCEPT !.tasks = FlipCompleted(@, id), !.lastUpdated = clock]

\* The setDayData part of handleStartFocusMode.
handleStartFocusModeDay(day, clock) ==
    [day EXCEPT !.tasks = LockAll(@), !.lastUpdated = clock]

\* The setFocusMode part of handleStartFocusMode.
handleStartFocusModeFocus(taskId) ==
    [isActive |-> TRUE, currentTaskId |-> taskId, timer |-> SessionSeconds]

\* Mutant of handleStopFocusMode: the end of the session unlocks the tasks.
handleStopFocusModeMut(day, timer, clock) ==
    [day EXCEPT !.focusTime = @ + focusTimeMinutes(timer), !.lastUpdated = clock,
                !.tasks = IF @ = <<>> THEN <<>>
                          ELSE [i \in 1..Len(@) |-> [@[i] EXCEPT !.locked = FALSE]]]

\* The setDayData part of handleStopFocusMode.
handleStopFocusMode(day, timer, clock) ==
    [day EXCEPT !.focusTime = @ + focusTimeMinutes(timer), !.lastUpdated = clock]

handleSubmitMorningQuestion(day, answer, clock) ==
    [day EXCEPT !.morningQuestion = answer, !.lastUpdated = clock]

\* Mutant of handleSubmitReflection: a second submission reopens the day.
handleSubmitReflectionFlipMut(day, reflection, clock) ==
    [day EXCEPT !.reflection = reflection, !.completed = ~day.completed,
                !.lastUpdated = clock]

\* Mutant of handleSubmitReflection: the day is completed, the text is lost.
handleSubmitReflectionMut(day, reflection, clock) ==
    [day EXCEPT !.completed = TRUE, !.lastUpdated = clock]

handleSubmitReflection(day, reflection, clock) ==
    [day EXCEPT !.reflection = reflection, !.completed = TRUE,
                !.lastUpdated = clock]

\* Mutant of handleDailyReset: the fresh day counts from the clock reading.
handleDailyResetMut(clock) ==
    [FreshDay(clock) EXCEPT !.focusTime = clock - StartClock]

\* The setDayData part of handleDailyReset.
handleDailyReset(clock) == FreshDay(clock)

\* The effect of the seeded variant: runs after the first render and after
\* every render whose commitments.length differs from the previous render's.
initializeDayRuns(wasMounted, prevLength, length) ==
    (~wasMounted \/ prevLength # length) /\ length = 0

initializeDay(day) == [day EXCEPT !.tasks = DemoTasks]

\* useState(!task.text): a card starts in edit mode when its text is empty.
InitialEditing(task) == task.text = Empty

----------------------------------------------------------------------------
(* What the last render shows *)

ListShown == rendered.mounted /\ ~rendered.focus.isActive
FocusShown == rendered.mounted /\ rendered.focus.isActive

\* Some rendered card or button of task `id' satisfies P.
Shown(id, P(_)) ==
    \E i \in 1..Len(rendered.tasks) :
        rendered.tasks[i].id = id /\ P(rendered.tasks[i])

AnyTask(task) == TRUE
Unlocked(task) == ~task.locked
NotCompleted(task) == ~task.completed

\* One more event is handled.
Handled == budget > 0 /\ budget' = budget - 1

AllIds == Ids(DemoTasks) \cup (StartClock .. StartClock + MaxClock)

----------------------------------------------------------------------------
Init ==
    /\ seeded \in BOOLEAN
    /\ dayData = FreshDay(StartClock)
    /\ settings = DefaultSettings
    /\ focusMode = IdleFocus
    /\ ui = DefaultUi
    /\ now = StartClock
    /\ rendered = Unmounted
    /\ editing = {}
    /\ armed = FALSE
    /\ budget = MaxEvents
    /\ lastOp = "init"

\* React renders DailyFocusOS with the current atoms and runs its effects:
\* the cards are mounted or unmounted, the countdown interval is cleared and
\* set again for the new (isActive, timer), and initializeDay may seed.
Render ==
    /\ rendered # Snapshot
    /\ rendered' = Snapshot
    /\ editing' =
         IF focusMode.isActive THEN {}
         ELSE { id \in Ids(dayData.tasks) :
                  IF ListShown /\ id \in Ids(rendered.tasks)
                  THEN id \in editing
                  ELSE \E i \in 1..Len(dayData.tasks) :
                          dayData.tasks[i].id = id /\ InitialEditing(dayData.tasks[i]) }
    /\ armed' = (focusMode.isActive /\ focusMode.timer > 0)
    /\ dayData' =
         IF seeded /\ initializeDayRuns(rendered.mounted, Len(rendered.tasks),
                                        Len(dayData.tasks))
         THEN initializeDay(dayData) ELSE dayData
    /\ lastOp' = "Render"
    /\ UNCHANGED <<seeded, settings, focusMode, ui, now, budget>>

\* The clock moves on between two events.
ClockAdvance ==
    /\ now < StartClock + MaxClock
    /\ now' = now + 1
    /\ lastOp' = "ClockAdvance"
    /\ UNCHANGED <<seeded, dayData, settings, focusMode, ui, rendered, editing,
                   armed, budget>>

\* Click on "+ Add Task" (disabled when the rendered total is 4 or more).
AddTask ==
    /\ ListShown
    /\ Handled
    /\ Len(rendered.tasks) < ProSlots
    /\ LET outcome == AddOutcome(Len(rendered.tasks), settings.isPro)
       IN  /\ ui' = IF outcome = "upgrade"
                    THEN [ui EXCEPT !.showUpgradeModal = TRUE] ELSE ui
           /\ dayData' = IF outcome = "add"
                         THEN handleAddTask(dayData, now) ELSE dayData
    /\ lastOp' = "AddTask"
    /\ UNCHANGED <<seeded, settings, focusMode, now, rendered, editing, armed>>

\* Click on the text of a card that is not in edit mode.
CardEdit(id) ==
    /\ ListShown
    /\ Handled
    /\ id \notin editing
    /\ Shown(id, Unlocked)
    /\ editing' = editing \cup {id}
    /\ lastOp' = "CardEdit"
    /\ UNCHANGED <<seeded, dayData, settings, focusMode, ui, now, rendered, armed>>

\* handleSave of a card in edit mode (blur or Enter) with `text' typed in.
UpdateTask(id, text) ==
    /\ ListShown
    /\ Handled
    /\ id \in editing
    /\ Trim(text) # Empty
    /\ dayData' = handleUpdateTask(dayData, id, text, now)
    /\ editing' = editing \ {id}
    /\ lastOp' = "UpdateTask"
    /\ UNCHANGED <<seeded, settings, focusMode, ui, now, rendered, armed>>

\* Click on the delete button of a card (rendered only while not locked).
DeleteTask(id) ==
    /\ ListShown
    /\ Handled
    /\ Shown(id, Unlocked)
    /\ dayData' = handleDeleteTask(dayData, id, now)
    /\ lastOp' = "DeleteTask"
    /\ UNCHANGED <<seeded, settings, focusMode, ui, now, rendered, editing, armed>>

\* Click on the completed indicator of a card.
ToggleComplete(id) ==
    /\ ListShown
    /\ Handled
    /\ Shown(id, AnyTask)
    /\ dayData' = handleToggleComplete(dayData, id, now)
    /\ lastOp' = "ToggleComplete"
    /\ UNCHANGED <<seeded, settings, focusMode, ui, now, rendered, editing, armed>>

\* Click on a Focus button (Focus Actions: disabled only when completed).
StartSession(id) ==
    /\ ListShown
    /\ Handled
    /\ Shown(id, NotCompleted)
    /\ dayData' = handleStartFocusModeDay(dayData, now)
    /\ focusMode' = handleStartFocusModeFocus(id)
    /\ lastOp' = "StartSession"
    /\ UNCHANGED <<seeded, settings, ui, now, rendered, editing, armed>>

\* A callback of the countdown interval: setFocusMode(prev => timer - 1).
Tick ==
    /\ armed
    /\ Handled
    /\ focusMode' = [focusMode EXCEPT !.timer = @ - 1]
    /\ lastOp' = "Tick"
    /\ UNCHANGED <<seeded, dayData, settings, ui, now, rendered, editing, armed>>

\* Click on "Complete Session" in the focus view.
StopSession ==
    /\ FocusShown
    /\ Handled
    /\ dayData' = handleStopFocusMode(dayData, rendered.focus.timer, now)
    /\ focusMode' = IdleFocus
    /\ lastOp' = "StopSession"
    /\ UNCHANGED <<seeded, settings, ui, now, rendered, editing, armed>>

\* Submit of the morning modal with `answer' typed in; handleSubmit returns
\* without calling onSubmit when the trimmed answer is empty.
SubmitMorningQuestion(answer) ==
    /\ ListShown
    /\ Handled
    /\ rendered.ui.showMorningModal
    /\ IF Trim(answer) # Empty
       THEN /\ dayData' = handleSubmitMorningQuestion(dayData, Trim(answer), now)
            /\ ui' = [ui EXCEPT !.showMorningModal = FALSE]
       ELSE UNCHANGED <<dayData, ui>>
    /\ lastOp' = "SubmitMorningQuestion"
    /\ UNCHANGED <<seeded, settings, focusMode, now, rendered, editing, armed>>

\* Click on "End Day".
OpenReflection ==
    /\ ListShown
    /\ Handled
    /\ ui' = [ui EXCEPT !.showReflectionModal = TRUE]
    /\ lastOp' = "OpenReflection"
    /\ UNCHANGED <<seeded, dayData, settings, focusMode, now, rendered, editing, armed>>

\* Submit of the reflection modal with `text' typed in; handleSubmit returns
\* without calling onSubmit when the trimmed text is empty.
SubmitReflection(text) ==
    /\ ListShown
    /\ Handled
    /\ rendered.ui.showReflectionModal
    /\ IF Trim(text) # Empty
       THEN /\ dayData' = handleSubmitReflection(dayData, Trim(text), now)
            /\ ui' = [ui EXCEPT !.showReflectionModal = FALSE]
       ELSE UNCHANGED <<dayData, ui>>
    /\ lastOp' = "SubmitReflection"
    /\ UNCHANGED <<seeded, settings, focusMode, now, rendered, editing, armed>>

\* Either button of the upgrade modal.
CloseUpgrade ==
    /\ ListShown
    /\ Handled
    /\ rendered.ui.showUpgradeModal
    /\ ui' = [ui EXCEPT !.showUpgradeModal = FALSE]
    /\ lastOp' = "CloseUpgrade"
    /\ UNCHANGED <<seeded, dayData, settings, focusMode, now, rendered, editing, armed>>

\* Click on "Unlock Pro" (rendered for accounts that are not pro).
OpenUpgrade ==
    /\ ListShown
    /\ Handled
    /\ ~settings.isPro
    /\ ui' = [ui EXCEPT !.showUpgradeModal = TRUE]
    /\ lastOp' = "OpenUpgrade"
    /\ UNCHANGED <<seeded, dayData, settings, focusMode, now, rendered, editing, armed>>

\* onClose of the morning modal (the `tasks' variant only).
CloseMorning ==
    /\ ListShown
    /\ Handled
    /\ ~seeded
    /\ rendered.ui.showMorningModal
    /\ ui' = [ui EXCEPT !.showMorningModal = FALSE]
    /\ lastOp' = "CloseMorning"
    /\ UNCHANGED <<seeded, dayData, settings, focusMode, now, rendered, editing, armed>>

\* onClose of the reflection modal (the `tasks' variant only).
CloseReflection ==
    /\ ListShown
    /\ Handled
    /\ ~seeded
    /\ rendered.ui.showReflectionModal
    /\ ui' = [ui EXCEPT !.showReflectionModal = FALSE]
    /\ lastOp' = "CloseReflection"
    /\ UNCHANGED <<seeded, dayData, settings, focusMode, now, rendered, editing, armed>>

\* Click on "Start New Day".
ResetDay ==
    /\ ListShown
    /\ Handled
    /\ dayData' = handleDailyReset(now)
    /\ ui' = DefaultUi
    /\ focusMode' = IdleFocus
    /\ lastOp' = "ResetDay"
    /\ UNCHANGED <<seeded, settings, now, rendered, editing, armed>>

Next ==
    \/ Render
    \/ ClockAdvance
    \/ AddTask
    \/ \E id \in AllIds : CardEdit(id)
    \/ \E id \in AllIds, text \in Drafts : UpdateTask(id, text)
    \/ \E id \in AllIds : DeleteTask(id)
    \/ \E id \in AllIds : ToggleComplete(id)
    \/ \E id \in AllIds : StartSession(id)
    \/ Tick
    \/ StopSession
    \/ \E answer \in Answers : SubmitMorningQuestion(answer)
    \/ OpenReflection
    \/ \E text \in Answers : SubmitReflection(text)
    \/ OpenUpgrade
    \/ CloseUpgrade
    \/ CloseMorning
    \/ CloseReflection
    \/ ResetDay

Spec == Init /\ [][Next]_vars

\* A session in progress: the day was planned, a session was started on the
\* first task and the countdown, rendered after every callback, has come
\* down to its last seconds.
InitTimer ==
    /\ seeded \in BOOLEAN
    /\ dayData =
         [handleSubmitMorningQuestion(FreshDay(StartClock), <<"r">>, StartClock)
            EXCEPT !.tasks = LockAll(IF seeded THEN DemoTasks
                                     ELSE <<NewTask(StartClock)>>)]
    /\ settings = DefaultSettings
    /\ focusMode \in { [handleStartFocusModeFocus(dayData.tasks[1].id)
                           EXCEPT !.timer = t] : t \in 0..MaxRemaining }
    /\ ui = [DefaultUi EXCEPT !.showMorningModal = FALSE]
    /\ now = StartClock
    /\ rendered = Snapshot
    /\ editing = {}
    /\ armed = (focusMode.timer > 0)
    /\ budget = MaxEvents
    /\ lastOp = "init"

SpecTimer == InitTimer /\ [][Next]_vars

----------------------------------------------------------------------------
(* Properties *)

HasLocked(id) ==
    \E i \in 1..Len(dayData.tasks) :
        dayData.tasks[i].id = id /\ dayData.tasks[i].locked

AllLocked == \A i \in 1..Len(dayData.tasks) : dayData.tasks[i].locked

\* C1: in every reachable state the list holds at most 3 tasks when isPro is
\* false and at most 4 when isPro is true, also when AddTask runs more than
\* once against the count captured at the last render.
C1_TaskCap ==
    Len(dayData.tasks) <= (IF settings.isPro THEN 4 ELSE 3)

\* C2: once a task is locked, no UpdateTask(id, text) and no DeleteTask(id)
\* on its id changes the task list: the state manager rejects the call.
C2_LockedRejected ==
    [][\A id \in AllIds :
          (/\ HasLocked(id)
           /\ \/ \E text \in Drafts : UpdateTask(id, text)
              \/ DeleteTask(id))
          => dayData'.tasks = dayData.tasks]_vars

\* C3: StartSession(taskId) locks every task of the list, changes nothing
\* else of any task nor the order, and leaves the focus session active on
\* taskId with timer = 1500.
C3_StartLocksAll ==
    [][\A id \in AllIds :
          StartSession(id) =>
            /\ Len(dayData'.tasks) = Len(dayData.tasks)
            /\ \A i \in 1..Len(dayData.tasks) :
                  /\ dayData'.tasks[i].locked
                  /\ dayData'.tasks[i] = [dayData.tasks[i] EXCEPT !.locked = TRUE]
            /\ focusMode' = [isActive |-> TRUE, currentTaskId |-> id, timer |-> 1500]
      ]_vars

\* C3 witness: a session was just started on one task of a list of several,
\* and a task other than the focused one is locked.
C3_Witness ==
    /\ lastOp = "StartSession"
    /\ Len(dayData.tasks) >= 2
    /\ AllLocked
    /\ focusMode.isActive /\ focusMode.timer = 1500
    /\ \E i \in 1..Len(dayData.tasks) : dayData.tasks[i].id # focusMode.currentTaskId

\* C4: StopSession on a running session with t seconds left adds exactly
\* 25 - floor(t/60) to focusTime, t being the timer at the moment of the
\* stop, and resets the focus session to Idle.
C4_StopCredits ==
    [][(StopSession /\ focusMode.isActive /\ focusMode.timer \in 0..1500) =>
          /\ dayData'.focusTime = dayData.focusTime + (25 - (focusMode.timer \div 60))
          /\ focusMode' = [isActive |-> FALSE, currentTaskId |-> NoTask, timer |-> 0]
      ]_vars

\* The four terms of the score as the specification words them.
TermAllDone(day) ==
    IF Len(day.tasks) > 0 /\ \A i \in 1..Len(day.tasks) : day.tasks[i].completed
    THEN 40 ELSE 0
TermFocus(day) == IF day.focusTime > 0 THEN 20 ELSE 0
TermReflection(day) == IF Trim(day.reflection) # <<>> THEN 20 ELSE 0
TermLocked(day) ==
    IF \E i \in 1..Len(day.tasks) : day.tasks[i].locked THEN 20 ELSE 0

\* DayStates that differ from `day' in the fields the score must not read.
SameForScore(day) ==
    { [day EXCEPT !.morningQuestion = m, !.focusScore = f, !.completed = c,
                  !.lastUpdated = u] :
        m \in { Empty, <<"m">> }, f \in { 0, 100 }, c \in BOOLEAN,
        u \in { StartClock, now } }

\* C5: for every DayState the score is min(100, a+b+c+d) with a = 40 iff the
\* list is non-empty and all completed, b = 20 iff focusTime > 0, c = 20 iff
\* the trimmed reflection is non-empty, d = 20 iff some task is locked; it
\* lies in 0..100 and reads nothing but tasks, focusTime and reflection.
C5_Score ==
    \A r \in Answers \cup { dayData.reflection } :
        LET day == [dayData EXCEPT !.reflection = r]
            sum == TermAllDone(day) + TermFocus(day) + TermReflection(day)
                     + TermLocked(day)
        IN  /\ focusScoreSelector(day) = (IF sum < 100 THEN sum ELSE 100)
            /\ focusScoreSelector(day) \in 0..100
            /\ \A other \in SameForScore(day) :
                  focusScoreSelector(other) = focusScoreSelector(day)

\* C5 witness: a day that earns several terms at once, among them the one
\* for a completed list.
C5_Witness ==
    /\ Len(dayData.tasks) > 0
    /\ focusScoreSelector(dayData) >= 60

\* C6: after ResetDay the list is empty, focusTime is 0, reflection and
\* morningQuestion are empty, completed is false, the session is Idle and
\* the morning prompt is shown; and in the seeding variant the list is
\* still empty after the render that follows the reset.
C6_ResetClears ==
    [][/\ ResetDay =>
            /\ dayData'.tasks = <<>>
            /\ dayData'.focusTime = 0
            /\ dayData'.reflection = <<>>
            /\ dayData'.morningQuestion = <<>>
            /\ dayData'.completed = FALSE
            /\ focusMode' = [isActive |-> FALSE, currentTaskId |-> NoTask, timer |-> 0]
            /\ ui'.showMorningModal
       /\ (lastOp = "ResetDay" /\ Render) => dayData'.tasks = <<>>
      ]_vars

\* C7: AddTask on a free account with 3 or more tasks in the list adds no
\* task, leaves DayState unchanged and raises the upgrade prompt; AddTask on
\* a pro account with 4 tasks changes nothing at all.
C7_AddRefused ==
    [][AddTask =>
          /\ (~settings.isPro /\ Len(dayData.tasks) >= 3) =>
                (dayData' = dayData /\ ui'.showUpgradeModal)
          /\ (settings.isPro /\ Len(dayData.tasks) >= 4) =>
                (dayData' = dayData /\ ui' = ui)
      ]_vars

\* C8: an AddTask that adds appends exactly one task at the end, with empty
\* text, not completed, not locked and without a time slot, and leaves the
\* tasks already in the list and their order as they were.
C8_AddAppends ==
    [][(AddTask /\ dayData'.tasks # dayData.tasks) =>
          /\ Len(dayData'.tasks) = Len(dayData.tasks) + 1
          /\ SubSeq(dayData'.tasks, 1, Len(dayData.tasks)) = dayData.tasks
          /\ LET new == dayData'.tasks[Len(dayData'.tasks)]
             IN  /\ new.text = <<>>
                 /\ ~new.completed
                 /\ ~new.locked
                 /\ new.timeSlot = NoSlot
      ]_vars

\* C8 witness: a task was just added behind a locked one.
C8_Witness ==
    /\ lastOp = "AddTask"
    /\ Len(dayData.tasks) >= 2
    /\ dayData.tasks[1].locked
    /\ ~dayData.tasks[Len(dayData.tasks)].locked
    /\ dayData.tasks[Len(dayData.tasks)].text = <<>>

\* C9: in every reachable state the tasks of the list have pairwise
\* distinct ids.
C9_UniqueIds ==
    \A i, j \in 1..Len(dayData.tasks) :
        i # j => dayData.tasks[i].id # dayData.tasks[j].id

\* C10: ToggleComplete(id) flips completed on the task with that id, locked
\* or not, changes no other task, no other field, neither order nor length,
\* and a second ToggleComplete(id) restores the DayState but for lastUpdated.
C10_ToggleInvolution ==
    [][\A id \in AllIds :
          ToggleComplete(id) =>
            /\ Len(dayData'.tasks) = Len(dayData.tasks)
            /\ \A i \in 1..Len(dayData.tasks) :
                  dayData'.tasks[i] =
                     IF dayData.tasks[i].id = id
                     THEN [dayData.tasks[i] EXCEPT !.completed = ~dayData.tasks[i].completed]
                     ELSE dayData.tasks[i]
            /\ [dayData' EXCEPT !.tasks = dayData.tasks,
                                !.lastUpdated = dayData.lastUpdated] = dayData
            /\ [handleToggleComplete(dayData', id, now') EXCEPT
                   !.lastUpdated = dayData.lastUpdated] = dayData
      ]_vars

\* C10 witness: a locked task of a list of several was just toggled to
\* completed.
C10_Witness ==
    /\ lastOp = "ToggleComplete"
    /\ Len(dayData.tasks) >= 2
    /\ \E i, j \in 1..Len(dayData.tasks) :
          /\ dayData.tasks[i].locked /\ dayData.tasks[i].completed
          /\ ~dayData.tasks[j].completed

\* The task with this id, as the list holds it, is completed.
HasCompleted(id) ==
    \E i \in 1..Len(dayData.tasks) :
        dayData.tasks[i].id = id /\ dayData.tasks[i].completed

\* C11: StartSession(taskId) on a completed task, or on an id no task of the
\* list has, is refused: no task becomes locked, the focus session stays as
\* it was (Idle) and DayState keeps its value.
C11_StartRefused ==
    [][\A id \in AllIds :
          (StartSession(id) /\ (HasCompleted(id) \/ id \notin Ids(dayData.tasks)))
          => /\ dayData' = dayData
             /\ focusMode' = focusMode
             /\ ~focusMode'.isActive
      ]_vars

\* C12: a callback of the countdown changes the state only while the
\* session is active with timer > 0, and then takes exactly 1 off the timer;
\* so the timer stays within 0..1500 in every state, also when a callback
\* still pending is delivered after StopSession or ResetDay, or a second
\* time before the effect has set the interval again.
C12_TickGuarded ==
    [][/\ Tick =>
            IF focusMode.isActive /\ focusMode.timer > 0
            THEN focusMode' = [focusMode EXCEPT !.timer = focusMode.timer - 1]
            ELSE focusMode' = focusMode
       /\ focusMode.timer \in 0..1500
       /\ focusMode'.timer \in 0..1500
      ]_vars

\* C13: when the timer reaches 0 the session stays Running (active, same
\* task), only StopSession and ResetDay make a session Idle, and a Running
\* session that is not stopped comes to timer = 0 and stays there.  Stated
\* on steps: the callback that takes the timer from 1 to 0 keeps the session
\* active on its task; a step that ends a session is StopSession or
\* ResetDay; and from a Running session at 0 every other step leaves the
\* session as it is.
C13_ZeroStaysRunning ==
    [][/\ (Tick /\ focusMode.isActive /\ focusMode.timer = 1) =>
             focusMode' = [focusMode EXCEPT !.timer = 0]
       /\ (focusMode.isActive /\ ~focusMode'.isActive) => (StopSession \/ ResetDay)
       /\ (focusMode.isActive /\ focusMode.timer = 0 /\ ~(StopSession \/ ResetDay)) =>
             focusMode' = focusMode
      ]_vars

\* C14: between two ResetDay operations focusTime never decreases: every
\* step other than ResetDay leaves it as it is or raises it, and every
\* StopSession adds a value of at least 0.
C14_FocusTimeMonotone ==
    [][/\ ~ResetDay => dayData'.focusTime >= dayData.focusTime
       /\ StopSession => dayData'.focusTime - dayData.focusTime >= 0
       /\ (dayData'.focusTime # dayData.focusTime) => (StopSession \/ ResetDay)
      ]_vars

\* C14 witness: a session was just stopped and its minutes were credited.
C14_Witness ==
    /\ lastOp = "StopSession"
    /\ dayData.focusTime >= 1
    /\ ~focusMode.isActive

\* C15: the minutes StopSession credits are the elapsed seconds, 1500 minus
\* the timer of the session being stopped, rounded up to a whole minute: at
\* least the time elapsed and less than one minute more, so 0 when stopped
\* before the first tick and 1 when stopped after one second.
C15_CreditRoundsUp ==
    [][(StopSession /\ focusMode.isActive) =>
          LET elapsed == 1500 - focusMode.timer
              credit == dayData'.focusTime - dayData.focusTime
          IN  /\ credit = (elapsed + 59) \div 60
              /\ credit * 60 >= elapsed
              /\ credit * 60 - elapsed < 60
              /\ (elapsed = 0 => credit = 0)
              /\ (elapsed = 1 => credit = 1)
      ]_vars

\* C16: SubmitReflection is the only operation that sets DayState.completed
\* to true and it writes the reflection in the same step; so whenever
\* DayState.completed is true the reflection is non-empty after trimming.
C16_CompletedHasReflection ==
    [][/\ (dayData'.completed /\ ~dayData.completed) =>
             /\ \E text \in Answers :
                   /\ SubmitReflection(text)
                   /\ dayData'.reflection = Trim(text)
             /\ Trim(dayData'.reflection) # <<>>
       /\ dayData.completed => Trim(dayData.reflection) # <<>>
       /\ dayData'.completed => Trim(dayData'.reflection) # <<>>
      ]_vars

\* C16 witness: the day was completed by a reflection typed with whitespace
\* around it.
C16_Witness ==
    /\ lastOp = "SubmitReflection"
    /\ dayData.completed
    /\ dayData.reflection = <<"r">>

\* The text holds nothing but whitespace.
Blank(s) == \A i \in 1..Len(s) : s[i] = " "

\* `stored' is `typed' without its surrounding whitespace.
StoredFrom(stored, typed) ==
    /\ stored # <<>>
    /\ stored[1] # " " /\ stored[Len(stored)] # " "
    /\ \E i, j \in 1..Len(typed) :
          /\ stored = SubSeq(typed, i, j)
          /\ Blank(SubSeq(typed, 1, i - 1))
          /\ Blank(SubSeq(typed, j + 1, Len(typed)))

\* C17: a morning question or a reflection that is empty after trimming is
\* refused: morningQuestion, reflection and DayState.completed keep their
\* values and the modal stays open; a non-empty one is stored (without the
\* surrounding whitespace) and its modal is closed.
C17_EmptyRefused ==
    [][\A a \in Answers :
          /\ SubmitMorningQuestion(a) =>
                IF Blank(a)
                THEN /\ dayData' = dayData
                     /\ ui'.showMorningModal = ui.showMorningModal
                ELSE /\ StoredFrom(dayData'.morningQuestion, a)
                     /\ ~ui'.showMorningModal
          /\ SubmitReflection(a) =>
                IF Blank(a)
                THEN /\ dayData' = dayData
                     /\ ui'.showReflectionModal = ui.showReflectionModal
                ELSE /\ StoredFrom(dayData'.reflection, a)
                     /\ dayData'.completed
                     /\ ~ui'.showReflectionModal
      ]_vars

\* C17 witness: a whitespace-only reflection was just submitted; the modal
\* is still open and the day is not completed.
C17_Witness ==
    /\ lastOp = "SubmitReflection"
    /\ ui.showReflectionModal
    /\ ~dayData.completed
    /\ dayData.reflection = <<>>

\* The state ResetDay leaves when it runs at clock reading `clock'.
AfterReset(clock) ==
    [day |-> [handleDailyReset(clock) EXCEPT !.lastUpdated = NoStamp],
     focus |-> IdleFocus, ui |-> DefaultUi]

\* DayState without its timestamp, the focus session and the UI flags.
ResetView(day, focus, flags) ==
    [day |-> [day EXCEPT !.lastUpdated = NoStamp], focus |-> focus, ui |-> flags]

\* C18: ResetDay is idempotent: whatever the state it runs in, a second
\* ResetDay right after it, at any clock reading, leaves the same DayState,
\* focus session and UI flags as the first, timestamps aside.
C18_ResetIdempotent ==
    [][/\ ResetDay =>
            \A clock \in now .. StartClock + MaxClock :
                AfterReset(clock) = ResetView(dayData', focusMode', ui')
       /\ (lastOp = "ResetDay" /\ ResetDay) =>
            ResetView(dayData', focusMode', ui') = ResetView(dayData, focusMode, ui)
      ]_vars

\* C18 witness: ResetDay has just run; the view still shows the tasks and
\* the flags it cleared.
C18_Witness ==
    /\ lastOp = "ResetDay"
    /\ dayData.tasks = <<>>
    /\ rendered.tasks # <<>>
    /\ rendered.ui # DefaultUi

\* C19: in every reachable state the focus session is Idle (not active, no
\* task id, timer 0) or Running (active, a task id, timer within 0..1500).
C19_IdleOrRunning ==
    \/ focusMode = [isActive |-> FALSE, currentTaskId |-> NoTask, timer |-> 0]
    \/ /\ focusMode.isActive
       /\ focusMode.currentTaskId # NoTask
       /\ focusMode.timer \in 0..1500

\* The list holds a task with this id and it is not locked.
HasUnlocked(id) ==
    \E i \in 1..Len(dayData.tasks) :
        dayData.tasks[i].id = id /\ ~dayData.tasks[i].locked

\* C20: DeleteTask(id) on an existing unlocked task removes exactly that
\* task: the list is one shorter, every other task is as it was and the
\* remaining tasks keep their order.
C20_DeleteRemovesOne ==
    [][\A id \in AllIds :
          (DeleteTask(id) /\ HasUnlocked(id)) =>
            /\ Len(dayData'.tasks) = Len(dayData.tasks) - 1
            /\ \E k \in 1..Len(dayData.tasks) :
                  /\ dayData.tasks[k].id = id
                  /\ dayData'.tasks = SubSeq(dayData.tasks, 1, k - 1)
                                        \o SubSeq(dayData.tasks, k + 1, Len(dayData.tasks))
      ]_vars

\* C21: UpdateTask, DeleteTask and ToggleComplete on an id no task of the
\* list has are no-ops: the DayState after the call equals the DayState
\* before it, lastUpdated included.
C21_AbsentIdNoOp ==
    [][\A id \in AllIds :
          (/\ id \notin Ids(dayData.tasks)
           /\ \/ \E text \in Drafts : UpdateTask(id, text)
              \/ DeleteTask(id)
              \/ ToggleComplete(id))
          => dayData' = dayData
      ]_vars

\* The day with the lock taken off every task.
WithoutLocks(day) ==
    [day EXCEPT !.tasks =
        IF day.tasks = <<>> THEN <<>>
        ELSE [i \in 1..Len(day.tasks) |-> [day.tasks[i] EXCEPT !.locked = FALSE]]]

\* The score of the day includes the +20 of the lock term.
LockTermAwarded(day) ==
    focusScoreSelector(day) = focusScoreSelector(WithoutLocks(day)) + 20

\* The step changes the text of a task that is locked.
EditsLockedTask ==
    /\ Len(dayData'.tasks) = Len(dayData.tasks)
    /\ \E i \in 1..Len(dayData.tasks) :
          /\ dayData.tasks[i].locked
          /\ dayData'.tasks[i].text # dayData.tasks[i].text

\* C22: whenever the score includes the +20 lock term, no task's text was
\* changed after the task became locked; so a step that changes the text of
\* a locked task leads to a state whose score is without the lock term.
C22_LockTermMeansNoEdits ==
    [][EditsLockedTask => ~LockTermAwarded(dayData')]_vars

\* C23: no operation sets isPro: it is false in every reachable state, both
\* buttons of the upgrade prompt only close the prompt, and therefore the
\* list never receives a fourth task.
C23_NeverPro ==
    [][/\ ~settings.isPro /\ ~settings'.isPro
       /\ CloseUpgrade => (settings' = settings /\ ~ui'.showUpgradeModal)
       /\ Len(dayData.tasks) <= 3 => Len(dayData'.tasks) <= 3
      ]_vars

\* C24: the countdown interval is cancelled when the session ends: in every
\* reachable state none is set while the session is Idle or the timer is 0,
\* and no callback of it is applied to an Idle session.  (At most one
\* interval exists at a time: the effect clears the one it set before it
\* sets the next.)
C24_NoOrphanInterval ==
    [][/\ armed => (focusMode.isActive /\ focusMode.timer > 0)
       /\ armed' => (focusMode'.isActive /\ focusMode'.timer > 0)
       /\ Tick => focusMode.isActive
      ]_vars

\* C25: through the task card the text of a locked task is never changed:
\* edit mode is entered for unlocked tasks only, so no sequence of user
\* actions ends with UpdateTask issued for a locked task.  Checked on the
\* steps taken from a view that is up to date with the atoms, where the card
\* shows the lock.
C25_CardNeverEditsLocked ==
    [][\A id \in AllIds, text \in Drafts :
          (UpdateTask(id, text) /\ rendered = Snapshot) => ~HasLocked(id)
      ]_vars

C27_RunningAllLocked ==
    focusMode.isActive =>
        /\ AllLocked
        /\ focusMode.currentTaskId \in Ids(dayData.tasks)

\* C28: a session is started from Idle only: no StartSession occurs while a
\* session is Running, so the timer of a Running session is never set back
\* to 1500 without StopSession having credited its elapsed minutes.
C28_StartOnlyFromIdle ==
    [][\A id \in AllIds : StartSession(id) => ~focusMode.isActive]_vars

\* The step is the seeding of initializeDay: a render of the seeding variant
\* that writes the task list.
Seeding == Render /\ dayData' # dayData

\* C29: in the seeding variant, whenever the list is empty (at start-up,
\* after ResetDay, after the last task is deleted) the seeding step
\* eventually puts the three demo tasks '1', '2', '3' in it, not completed
\* and not locked, so the list never stays empty; seeding changes no other
\* field of DayState and never fires on a list that is not empty.  Stated on
\* states and steps: while the list is empty the render that seeds is still
\* to come, and a seeding step does what is said.
C29_SeedsWhenEmpty ==
    [][/\ (seeded /\ dayData'.tasks = <<>>) =>
             /\ rendered' # [mounted |-> TRUE, tasks |-> dayData'.tasks,
                             focus |-> focusMode', ui |-> ui']
             /\ initializeDayRuns(rendered'.mounted, Len(rendered'.tasks), 0)
       /\ Seeding =>
             /\ seeded
             /\ dayData.tasks = <<>>
             /\ Len(dayData'.tasks) = 3
             /\ \A i \in 1..3 :
                   /\ dayData'.tasks[i].id = i
                   /\ ~dayData'.tasks[i].completed
                   /\ ~dayData'.tasks[i].locked
             /\ [dayData' EXCEPT !.tasks = <<>>] = dayData
      ]_vars

\* C30: once DayState.completed is true it stays true until ResetDay: no
\* task operation, session operation or submission sets it back to false,
\* and a further SubmitReflection only overwrites the reflection text (and
\* the timestamp).
C30_CompletedSticky ==
    [][dayData.completed =>
          /\ ~ResetDay => dayData'.completed
          /\ \A text \in Answers :
                SubmitReflection(text) =>
                    [dayData' EXCEPT !.reflection = dayData.reflection,
                                     !.lastUpdated = dayData.lastUpdated] = dayData
      ]_vars

\* C30 witness: a task was toggled on a day already completed, and the day
\* is still completed.
C30_Witness ==
    /\ lastOp = "ToggleComplete"
    /\ dayData.completed
    /\ dayData.reflection = <<"r">>
    /\ \E i \in 1..Len(dayData.tasks) : dayData.tasks[i].completed

====
